---- MODULE Spec2Model ----
(***************************************************************************)
(* Model of src/main.py: the HTTP handler                                  *)
(* fetch_redacted_transcripts_and_delete_audio, the analytical query it    *)
(* submits, the object store it lists and deletes from, and the wipeout    *)
(* (audit) log it appends to.                                              *)
(*                                                                         *)
(* Strings the code only compares are TLA+ strings.  The brand selector,   *)
(* which the code lower-cases, is a sequence of characters.  Object keys   *)
(* and the path template are sequences of path segments, so that           *)
(* list_blobs(prefix=...) is prefix matching on whole segments (the        *)
(* template ends with "/").  Timestamps are minutes since an epoch.        *)
(***************************************************************************)
EXTENDS Integers, Sequences, FiniteSets, TLC

VARIABLES
    bq_client,          \* module global: "Client" or "None"
    storage_client,     \* module global: "Client" or "None"
    now,                \* wall clock, in minutes
    transcript_tables,  \* table path -> set of conversation turns
    log_tables,         \* table path -> sequence of wipeout-log records
    buckets,            \* bucket name -> set of object keys
    inv                 \* invocation id -> the handler's frame

vars == <<bq_client, storage_client, now, transcript_tables, log_tables, buckets, inv>>

----------------------------------------------------------------------------
(* Bounds of the model *)

MaxTurns == 2       \* rows the environment adds to a transcript table
MaxFiles == 2       \* audio objects under the largest session folder
MaxTicks == 2       \* clock advances

----------------------------------------------------------------------------
(* Values *)

None == "None"      \* Python None, SQL NULL

WindowMinutes == 60
MinutesPerDay == 24 * 60
StartTime == MinutesPerDay - 30
TickMinutes == WindowMinutes - 15

\* The handler frames.  Scheduled are the ones the scheduler job starts,
\* one after the other has returned.
Invocations == {"job1", "job2"}
Scheduled == {"job1"}

----------------------------------------------------------------------------
(* Static brand configurations, lines 12-22 *)

MCDONALDS_CONFIG ==
    [TRANSCRIPTS_TABLE_PATH |-> "mcdonalds-ttm.transcripts_decibel.prod",
     BUCKET_NAME |-> "mcdonalds-ttm-audio",
     WIPEOUT_LOG_TABLE_PATH |-> "foodai-analytics.audio_wipeout_dataset.mcdonalds_prod_log",
     GCS_PATH_TEMPLATE |-> <<"mcdonalds-ttm", "{agent_id}", "{date_str}", "{session_id}">>]

\* Configurations "added here" (lines 10-11) that leave out an optional or
\* the mandatory key; they read the same table and bucket as the brand above.
Without(config, keys) == [k \in (DOMAIN config) \ keys |-> config[k]]

mcdonalds == <<"m", "c", "d", "o", "n", "a", "l", "d", "s">>
wendys == <<"w", "e", "n", "d", "y", "s">>
kfc == <<"k", "f", "c">>
bk == <<"b", "k">>
tb == <<"t", "b">>

BRAND_CONFIGS ==
    (mcdonalds :> MCDONALDS_CONFIG)
    @@ (wendys :> Without(MCDONALDS_CONFIG, {"BUCKET_NAME"}))
    @@ (kfc :> Without(MCDONALDS_CONFIG, {"GCS_PATH_TEMPLATE", "WIPEOUT_LOG_TABLE_PATH"}))
    @@ (bk :> Without(MCDONALDS_CONFIG, {"WIPEOUT_LOG_TABLE_PATH"}))
    @@ (tb :> Without(MCDONALDS_CONFIG, {"TRANSCRIPTS_TABLE_PATH"}))

\* config.get(key) is truthy
Configured(config, key) == key \in DOMAIN config

TranscriptTablePaths == {MCDONALDS_CONFIG.TRANSCRIPTS_TABLE_PATH}
LogTablePaths == {MCDONALDS_CONFIG.WIPEOUT_LOG_TABLE_PATH}
OtherBucket == "other-bucket"
BucketNames == {MCDONALDS_CONFIG.BUCKET_NAME, OtherBucket}

----------------------------------------------------------------------------
(* Requests, lines 51-55 *)

\* request.get_json(silent=True): json = FALSE is None; body maps keys to values
EmptyBody == [k \in {} |-> <<>>]
NoJson == [json |-> FALSE, body |-> EmptyBody]
JsonBody(b) == [json |-> TRUE, body |-> b]

Selectors ==
    {mcdonalds,
     <<"W", "e", "n", "d", "y", "s">>,
     <<"K", "F", "C">>,
     bk,
     tb,
     <<"a", "r", "b", "y", "s">>,
     <<>>}

Requests ==
    {NoJson, JsonBody(EmptyBody), JsonBody("other" :> <<"x">>)}
    \cup {JsonBody("brand" :> s) : s \in Selectors}

LowerChar(c) ==
    CASE c = "W" -> "w"
      [] c = "K" -> "k"
      [] c = "F" -> "f"
      [] c = "C" -> "c"
      [] OTHER -> c

\* str.lower()
Lower(s) == [k \in DOMAIN s |-> LowerChar(s[k])]

\* line 45
ClientsMissing_NoCheck == FALSE
ClientsMissing == bq_client = None \/ storage_client = None

\* line 52: not request_json or "brand" not in request_json
MissingBrand_OnlyNone(req) == ~req.json
MissingBrand(req) == ~req.json \/ DOMAIN req.body = {} \/ "brand" \notin DOMAIN req.body

\* lines 55-58: BRAND_CONFIGS.get(brand) is falsy
UnknownBrand_CaseSensitive(req) == req.body["brand"] \notin DOMAIN BRAND_CONFIGS
UnknownBrand(req) == Lower(req.body["brand"]) \notin DOMAIN BRAND_CONFIGS

----------------------------------------------------------------------------
(* The query, lines 79-123 *)

\* T.customer_utterance LIKE '%[redacted]%' (case-sensitive), line 118
Marker == "[redacted]"
Like(utterance) == \E k \in DOMAIN utterance : utterance[k] = Marker

\* CTE ConversationTurn, lines 97-108: the trailing 60-minute window
ConversationTurn(table, t) == {turn \in table : turn.request_time >= t - WindowMinutes}

\* lines 81-88 and 116, 122: LEFT JOIN log ... AND log.session_id IS NULL
NotLogged_NoJoin(turn, log, joined) == TRUE
NotLogged(turn, log, joined) ==
    joined => ~(\E k \in DOMAIN log : log[k].session_id = turn.session_id)

\* SELECT DISTINCT session_id, project_id, agent_id, request_time, lines 109-122
QueryRows(table, log, joined, t) ==
    {[session_id |-> turn.session_id, project_id |-> turn.project_id,
      agent_id |-> turn.agent_id, request_time |-> turn.request_time] :
        turn \in {u \in ConversationTurn(table, t) :
                    /\ Like(u.customer_utterance)
                    /\ u.session_id # None
                    /\ u.agent_id # None
                    /\ NotLogged(u, log, joined)}}

----------------------------------------------------------------------------
(* Object store, lines 151-172 *)

\* request_time.strftime("%Y-%m-%d"), line 151: the calendar day
DateStr(t) == t \div MinutesPerDay

\* gcs_path_template.format(...), lines 152-154
Format_Swapped(template, agent_id, date_str, session_id) ==
    [k \in DOMAIN template |->
        CASE template[k] = "{agent_id}" -> session_id
          [] template[k] = "{date_str}" -> ToString(date_str)
          [] template[k] = "{session_id}" -> agent_id
          [] OTHER -> template[k]]
Format(template, agent_id, date_str, session_id) ==
    [k \in DOMAIN template |->
        CASE template[k] = "{agent_id}" -> agent_id
          [] template[k] = "{date_str}" -> ToString(date_str)
          [] template[k] = "{session_id}" -> session_id
          [] OTHER -> template[k]]

HasPrefix_AgentFolder(key, prefix) ==
    /\ Len(prefix) <= Len(key)
    /\ SubSeq(key, 1, 2) = SubSeq(prefix, 1, 2)
HasPrefix(key, prefix) ==
    /\ Len(prefix) <= Len(key)
    /\ SubSeq(key, 1, Len(prefix)) = prefix

\* bucket.list_blobs(prefix=...), line 161
ListBlobs(bucket, prefix) == {key \in buckets[bucket] : HasPrefix(key, prefix)}

\* The listing as a list, in the order of the object names
RECURSIVE InOrder(_)
InOrder(keys) ==
    IF keys = {} THEN <<>>
    ELSE LET first == CHOOSE k \in keys : \A o \in keys : k[Len(k)] <= o[Len(o)]
         IN <<first>> \o InOrder(keys \ {first})

\* line 163: not blobs_to_delete
NoBlobs_Never(blobs) == FALSE
NoBlobs(blobs) == blobs = <<>>

----------------------------------------------------------------------------
(* Wipeout log, lines 177-196 *)

\* datetime.isoformat(): request_time carries the UTC offset, utcnow() does not
IsoFormat(t, offset) ==
    [date |-> t \div MinutesPerDay,
     hour |-> (t % MinutesPerDay) \div 60,
     minute |-> t % 60,
     offset |-> offset]

\* rows_to_insert, lines 179-185
RowsToInsert_NoSession(row, t) ==
    <<[session_id |-> None,
       request_timestamp |-> IsoFormat(row.request_time, "+00:00"),
       deleted_timestamp |-> IsoFormat(t, "")]>>
RowsToInsert(row, t) ==
    <<[session_id |-> row.session_id,
       request_timestamp |-> IsoFormat(row.request_time, "+00:00"),
       deleted_timestamp |-> IsoFormat(t, "")]>>

----------------------------------------------------------------------------
(* The handler's frame *)

NoRow == [session_id |-> None, project_id |-> None, agent_id |-> None, request_time |-> 0]
NoResponse == [status |-> 0, kind |-> "none"]
NoCounts == [scanned |-> 0, folders |-> 0, files |-> 0, errors |-> 0, log_len |-> 0]

\* pc: "idle", "query" (line 132), "rows" (line 134), "list" (line 161),
\* "delete" (line 171), "insert" (line 187), "done" (returned).
\* queried, fetched, listed, deleted, inserted, outcomes and row_start record
\* what the invocation has done: the calls it made, how each row ended, and
\* the counters as they were when the current row was fetched.
Frame(req) ==
    [pc |-> "idle",
     request |-> req,
     brand |-> <<>>,
     rows |-> {},
     fetched |-> 0,
     row |-> NoRow,
     gcs_folder_prefix |-> <<>>,
     blobs_to_delete |-> <<>>,
     next_blob |-> 1,
     scanned_session_count |-> 0,
     deleted_folder_count |-> 0,
     deleted_file_count |-> 0,
     error_count |-> 0,
     response |-> NoResponse,
     queried |-> 0,
     listed |-> {},
     deleted |-> {},
     inserted |-> <<>>,
     outcomes |-> <<>>,
     row_start |-> NoCounts]

Config(f) == BRAND_CONFIGS[f.brand]

Return(f, response) == [f EXCEPT !.pc = "done", !.response = response]

\* A row is finished: back to the head of the loop of line 134.  The entry
\* added to outcomes tells how many objects the listing returned (-1: there
\* was no listing), how many of them were deleted, and how the row ended.
Continue(f, outcome) ==
    LET unlisted == outcome \in {"log_only", "list_raised"}
    IN [f EXCEPT !.pc = "rows",
                 !.outcomes = Append(@, [session_id |-> f.row.session_id,
                                         n |-> IF unlisted THEN -1 ELSE Len(f.blobs_to_delete),
                                         removed |-> IF unlisted THEN 0 ELSE f.next_blob - 1,
                                         outcome |-> outcome])]

\* line 144: not gcs_bucket_name or not gcs_path_template
LogOnly_TemplateOnly(config) == ~Configured(config, "GCS_PATH_TEMPLATE")
LogOnly(config) ==
    ~Configured(config, "BUCKET_NAME") \/ ~Configured(config, "GCS_PATH_TEMPLATE")

\* lines 198-202: the except clause of the per-session try
Except(f, outcome) == Continue([f EXCEPT !.error_count = @ + 1], outcome)

\* lines 174-178: after the loop of line 170 has deleted every listed blob
Deleted_NoFolderCount(f) ==
    IF Configured(Config(f), "WIPEOUT_LOG_TABLE_PATH")
    THEN [f EXCEPT !.pc = "insert"]
    ELSE Continue(f, "deleted")
Deleted(f) ==
    LET g == [f EXCEPT !.deleted_folder_count = @ + 1]
    IN IF Configured(Config(f), "WIPEOUT_LOG_TABLE_PATH")
       THEN [g EXCEPT !.pc = "insert"]
       ELSE Continue(g, "deleted")

\* lines 186-196: insert_errors is None whatever insert_rows_json returned
InsertErrors(returned) == <<>>

Logged(f, returned, outcome) ==
    IF InsertErrors(returned) = <<>>
    THEN Continue(f, outcome)
    ELSE Continue([f EXCEPT !.error_count = @ + 1], outcome)

\* lines 208-214
Summary(f) ==
    [status |-> 200, kind |-> "Summary",
     scanned |-> f.scanned_session_count,
     folders |-> f.deleted_folder_count,
     files |-> f.deleted_file_count,
     errors |-> f.error_count]

----------------------------------------------------------------------------
(* Initial state: the module has been imported, lines 27-33 *)

SessionIds == {"S1", "S2"}
AgentId == "A1"
ProjectId == "P1"

Utterances == {<<"my", "card", "is", Marker>>, <<"hello", "[Redacted]">>}

\* What a turn added to a transcript table may hold
TurnShapes ==
    {[session_id |-> "S1", agent_id |-> AgentId, customer_utterance |-> u] : u \in Utterances}
    \cup {[session_id |-> "S2", agent_id |-> AgentId, customer_utterance |-> <<"my", "card", "is", Marker>>],
          [session_id |-> None, agent_id |-> AgentId, customer_utterance |-> <<"my", "card", "is", Marker>>],
          [session_id |-> "S1", agent_id |-> None, customer_utterance |-> <<"my", "card", "is", Marker>>]}

Folder(day, session_id) == <<"mcdonalds-ttm", AgentId, ToString(day), session_id>>
Today == DateStr(StartTime)

\* Audio objects: MaxFiles under S1's folder of today, one under S2's, one
\* under S1's folder of tomorrow, one of a session that is never flagged.
InitialObjects ==
    {Folder(Today, "S1") \o <<n>> : n \in 1..MaxFiles}
    \cup {Folder(Today, "S2") \o <<1>>,
          Folder(Today + 1, "S1") \o <<1>>,
          Folder(Today, "S3") \o <<1>>}

Init ==
    /\ \E client \in {"Client", None} :
          /\ bq_client = client
          /\ storage_client = client
    /\ now = StartTime
    /\ transcript_tables = [p \in TranscriptTablePaths |-> {}]
    /\ log_tables = [p \in LogTablePaths |-> <<>>]
    /\ buckets = [b \in BucketNames |->
                    IF b = OtherBucket THEN {Folder(Today, "S1") \o <<1>>} ELSE InitialObjects]
    /\ inv = [i \in Invocations |-> Frame(NoJson)]

----------------------------------------------------------------------------
(* Environment *)

Tick ==
    /\ now < StartTime + MaxTicks * TickMinutes
    /\ now' = now + TickMinutes
    /\ UNCHANGED <<bq_client, storage_client, transcript_tables, log_tables, buckets, inv>>

\* A conversation turn is exported to a transcript table
AddTurn ==
    \E p \in TranscriptTablePaths, shape \in TurnShapes :
        /\ Cardinality(transcript_tables[p]) < MaxTurns
        /\ transcript_tables' =
              [transcript_tables EXCEPT ![p] = @ \cup
                  {[request_time |-> now, project_id |-> ProjectId,
                    agent_id |-> shape.agent_id, session_id |-> shape.session_id,
                    customer_utterance |-> shape.customer_utterance]}]
        /\ transcript_tables' # transcript_tables
        /\ UNCHANGED <<bq_client, storage_client, now, log_tables, buckets, inv>>

----------------------------------------------------------------------------
(* The handler, lines 37-214 *)

Env == <<bq_client, storage_client, now, transcript_tables>>

Idle(i) == inv[i].pc \in {"idle", "done"}
Put(i, f) == inv' = [inv EXCEPT ![i] = f]

\* lines 45-48
ClientsNotInitialized(i) ==
    \E req \in Requests :
        /\ Idle(i)
        /\ ClientsMissing
        /\ Put(i, Return(Frame(req), [status |-> 500, kind |-> "ClientsNotInitialized"]))
        /\ UNCHANGED <<Env, log_tables, buckets>>

\* lines 51-53; request_json["brand"] at line 55 raises KeyError when the
\* key is not there, which the framework answers with a 500
BadRequest(i) ==
    \E req \in Requests :
        /\ Idle(i)
        /\ ~ClientsMissing
        /\ MissingBrand(req) \/ "brand" \notin DOMAIN req.body
        /\ Put(i, Return(Frame(req),
                         IF MissingBrand(req)
                         THEN [status |-> 400, kind |-> "BadRequest"]
                         ELSE [status |-> 500, kind |-> "KeyError"]))
        /\ UNCHANGED <<Env, log_tables, buckets>>

\* lines 55-62
InvalidBrand(i) ==
    \E req \in Requests :
        /\ Idle(i)
        /\ ~ClientsMissing
        /\ ~MissingBrand(req)
        /\ "brand" \in DOMAIN req.body
        /\ UnknownBrand(req)
        /\ Put(i, Return([Frame(req) EXCEPT !.brand = Lower(req.body["brand"])],
                         [status |-> 400, kind |-> "InvalidBrand",
                          brand |-> Lower(req.body["brand"]),
                          available |-> DOMAIN BRAND_CONFIGS]))
        /\ UNCHANGED <<Env, log_tables, buckets>>

\* lines 64-73
MisconfiguredBrand(i) ==
    \E req \in Requests :
        /\ Idle(i)
        /\ ~ClientsMissing
        /\ ~MissingBrand(req)
        /\ "brand" \in DOMAIN req.body
        /\ ~UnknownBrand(req)
        /\ ~Configured(BRAND_CONFIGS[Lower(req.body["brand"])], "TRANSCRIPTS_TABLE_PATH")
        /\ Put(i, Return([Frame(req) EXCEPT !.brand = Lower(req.body["brand"])],
                         [status |-> 500, kind |-> "MisconfiguredBrand",
                          brand |-> Lower(req.body["brand"])]))
        /\ UNCHANGED <<Env, log_tables, buckets>>

\* lines 75-131: the job starts, the query text is built, the counters are zero
StartJob(i) ==
    \E req \in Requests :
        /\ Idle(i)
        /\ ~ClientsMissing
        /\ ~MissingBrand(req)
        /\ "brand" \in DOMAIN req.body
        /\ ~UnknownBrand(req)
        /\ Configured(BRAND_CONFIGS[Lower(req.body["brand"])], "TRANSCRIPTS_TABLE_PATH")
        /\ Put(i, [Frame(req) EXCEPT !.brand = Lower(req.body["brand"]), !.pc = "query"])
        /\ UNCHANGED <<Env, log_tables, buckets>>

JobFailed(f) == [status |-> 500, kind |-> "JobFailed", brand |-> f.brand]

\* line 132 (or the wait for the job's result at line 134) raises: lines 204-206
QueryRaises(i) ==
    /\ inv[i].pc = "query"
    /\ Put(i, Return([inv[i] EXCEPT !.queried = @ + 1], JobFailed(inv[i])))
    /\ UNCHANGED <<Env, log_tables, buckets>>

\* lines 132-134: the job runs on the tables as they are now
QueryReturns(i) ==
    LET f == inv[i]
        config == Config(f)
        joined == Configured(config, "WIPEOUT_LOG_TABLE_PATH")
        log == IF joined THEN log_tables[config.WIPEOUT_LOG_TABLE_PATH] ELSE <<>>
    IN /\ f.pc = "query"
       /\ Put(i, [f EXCEPT !.pc = "rows", !.queried = @ + 1,
                           !.rows = QueryRows(transcript_tables[config.TRANSCRIPTS_TABLE_PATH],
                                              log, joined, now)])
       /\ UNCHANGED <<Env, log_tables, buckets>>

\* line 134: the iterator is exhausted; lines 208-214
RowsExhausted(i) ==
    /\ inv[i].pc = "rows"
    /\ inv[i].rows = {}
    /\ Put(i, Return(inv[i], Summary(inv[i])))
    /\ UNCHANGED <<Env, log_tables, buckets>>

\* line 134: fetching the next page of rows raises; lines 204-206
FetchRaises(i) ==
    /\ inv[i].pc = "rows"
    /\ inv[i].rows # {}
    /\ Put(i, Return(inv[i], JobFailed(inv[i])))
    /\ UNCHANGED <<Env, log_tables, buckets>>

\* lines 134-141: the next row, in whatever order the query yields them
Fetch_NotCounted(f, row) ==
    [f EXCEPT !.rows = @ \ {row}, !.fetched = @ + 1, !.row = row,
              !.row_start = [scanned |-> f.scanned_session_count,
                             folders |-> f.deleted_folder_count,
                             files |-> f.deleted_file_count,
                             errors |-> f.error_count,
                             log_len |-> Len(f.inserted)]]
Fetch(f, row) ==
    [f EXCEPT !.rows = @ \ {row}, !.fetched = @ + 1, !.row = row,
              !.scanned_session_count = @ + 1,
              !.row_start = [scanned |-> f.scanned_session_count,
                             folders |-> f.deleted_folder_count,
                             files |-> f.deleted_file_count,
                             errors |-> f.error_count,
                             log_len |-> Len(f.inserted)]]

\* lines 144-149
LogOnlyRow(i) ==
    \E row \in inv[i].rows :
        /\ inv[i].pc = "rows"
        /\ LogOnly(Config(inv[i]))
        /\ Put(i, Continue(Fetch(inv[i], row), "log_only"))
        /\ UNCHANGED <<Env, log_tables, buckets>>

\* lines 151-157
TargetRow(i) ==
    \E row \in inv[i].rows :
        /\ inv[i].pc = "rows"
        /\ ~LogOnly(Config(inv[i]))
        /\ Put(i, [Fetch(inv[i], row) EXCEPT
                      !.pc = "list",
                      !.gcs_folder_prefix =
                          Format(Config(inv[i]).GCS_PATH_TEMPLATE, row.agent_id,
                                 DateStr(row.request_time), row.session_id)])
        /\ UNCHANGED <<Env, log_tables, buckets>>

\* lines 160-161 raise (always, when there is no bucket name)
ListRaises(i) ==
    /\ inv[i].pc = "list"
    /\ Put(i, Except([inv[i] EXCEPT !.listed = @ \cup {inv[i].gcs_folder_prefix}], "list_raised"))
    /\ UNCHANGED <<Env, log_tables, buckets>>

\* lines 160-169
ListReturns(i) ==
    LET f == inv[i]
        blobs == InOrder(ListBlobs(Config(f).BUCKET_NAME, f.gcs_folder_prefix))
        g == [f EXCEPT !.blobs_to_delete = blobs, !.next_blob = 1,
                       !.listed = @ \cup {f.gcs_folder_prefix}]
    IN /\ f.pc = "list"
       /\ Configured(Config(f), "BUCKET_NAME")
       /\ Put(i, IF NoBlobs(blobs) THEN Continue(g, "empty")
                 ELSE IF blobs = <<>> THEN Deleted(g)
                 ELSE [g EXCEPT !.pc = "delete"])
       /\ UNCHANGED <<Env, log_tables, buckets>>

\* line 171 raises (always, with NotFound, when the object is no longer there)
DeleteRaises(i) ==
    LET f == inv[i]
        there == f.blobs_to_delete[f.next_blob] \in buckets[Config(f).BUCKET_NAME]
    IN /\ f.pc = "delete"
       /\ Put(i, Except(f, IF there THEN "delete_raised" ELSE "delete_not_found"))
    /\ UNCHANGED <<Env, log_tables, buckets>>

\* lines 170-175: one turn of the loop, and what follows the last one
DeleteBlob(i) ==
    LET f == inv[i]
        bucket == Config(f).BUCKET_NAME
        blob == f.blobs_to_delete[f.next_blob]
        g == [f EXCEPT !.deleted_file_count = @ + 1, !.next_blob = @ + 1,
                       !.deleted = @ \cup {<<bucket, blob>>}]
    IN /\ f.pc = "delete"
       /\ blob \in buckets[bucket]
       /\ buckets' = [buckets EXCEPT ![bucket] = @ \ {blob}]
       /\ Put(i, IF f.next_blob = Len(f.blobs_to_delete) THEN Deleted(g) ELSE g)
       /\ UNCHANGED <<Env, log_tables>>

\* line 187 raises: lines 198-202
InsertRaises(i) ==
    /\ inv[i].pc = "insert"
    /\ Put(i, Except(inv[i], "insert_raised"))
    /\ UNCHANGED <<Env, log_tables, buckets>>

\* line 187 returns the list of the rows the table refused
InsertRefused(i) ==
    LET f == inv[i]
        rows_to_insert == RowsToInsert(f.row, now)
    IN /\ f.pc = "insert"
       /\ Put(i, Logged(f, rows_to_insert, "insert_refused"))
       /\ UNCHANGED <<Env, log_tables, buckets>>

\* line 187 returns the empty list: the record is in the table
InsertSucceeds(i) ==
    LET f == inv[i]
        rows_to_insert == RowsToInsert(f.row, now)
    IN /\ f.pc = "insert"
       /\ log_tables' = [log_tables EXCEPT ![Config(f).WIPEOUT_LOG_TABLE_PATH] = @ \o rows_to_insert]
       /\ Put(i, Logged([f EXCEPT !.inserted = @ \o rows_to_insert], <<>>, "logged"))
       /\ UNCHANGED <<Env, buckets>>

Next ==
    \/ Tick
    \/ AddTurn
    \/ \E i \in Scheduled : ClientsNotInitialized(i)
    \/ \E i \in Scheduled : BadRequest(i)
    \/ \E i \in Scheduled : InvalidBrand(i)
    \/ \E i \in Scheduled : MisconfiguredBrand(i)
    \/ \E i \in Scheduled : StartJob(i)
    \/ \E i \in Scheduled : QueryRaises(i)
    \/ \E i \in Scheduled : QueryReturns(i)
    \/ \E i \in Scheduled : RowsExhausted(i)
    \/ \E i \in Scheduled : FetchRaises(i)
    \/ \E i \in Scheduled : LogOnlyRow(i)
    \/ \E i \in Scheduled : TargetRow(i)
    \/ \E i \in Scheduled : ListRaises(i)
    \/ \E i \in Scheduled : ListReturns(i)
    \/ \E i \in Scheduled : DeleteRaises(i)
    \/ \E i \in Scheduled : DeleteBlob(i)
    \/ \E i \in Scheduled : InsertRaises(i)
    \/ \E i \in Scheduled : InsertRefused(i)
    \/ \E i \in Scheduled : InsertSucceeds(i)

Spec == Init /\ [][Next]_vars

----------------------------------------------------------------------------
(* Invocations that overlap: the scheduler job fires again, or the function *)
(* is called by hand, before the running invocation has returned.  The     *)
(* clients are initialised and two sessions have a flagged turn each.      *)

FlaggedTurn(session_id) ==
    [request_time |-> StartTime, project_id |-> ProjectId, agent_id |-> AgentId,
     session_id |-> session_id, customer_utterance |-> <<"my", "card", "is", Marker>>]

InitOverlap ==
    /\ bq_client = "Client"
    /\ storage_client = "Client"
    /\ now = StartTime
    /\ transcript_tables = [p \in TranscriptTablePaths |-> {FlaggedTurn(s) : s \in SessionIds}]
    /\ log_tables = [p \in LogTablePaths |-> <<>>]
    /\ buckets = [b \in BucketNames |->
                    IF b = OtherBucket THEN {Folder(Today, "S1") \o <<1>>} ELSE InitialObjects]
    /\ inv = [i \in Invocations |-> Frame(NoJson)]

NextOverlap ==
    \/ \E i \in Invocations : StartJob(i)
    \/ \E i \in Invocations : QueryRaises(i)
    \/ \E i \in Invocations : QueryReturns(i)
    \/ \E i \in Invocations : RowsExhausted(i)
    \/ \E i \in Invocations : FetchRaises(i)
    \/ \E i \in Invocations : LogOnlyRow(i)
    \/ \E i \in Invocations : TargetRow(i)
    \/ \E i \in Invocations : ListRaises(i)
    \/ \E i \in Invocations : ListReturns(i)
    \/ \E i \in Invocations : DeleteRaises(i)
    \/ \E i \in Invocations : DeleteBlob(i)
    \/ \E i \in Invocations : InsertRaises(i)
    \/ \E i \in Invocations : InsertRefused(i)
    \/ \E i \in Invocations : InsertSucceeds(i)

SpecOverlap == InitOverlap /\ [][NextOverlap]_vars

----------------------------------------------------------------------------
(* What the claims speak of *)

Known(f) == f.brand \in DOMAIN BRAND_CONFIGS
HasLogTable(f) == Known(f) /\ "WIPEOUT_LOG_TABLE_PATH" \in DOMAIN BRAND_CONFIGS[f.brand]
LogOf(f) == log_tables[BRAND_CONFIGS[f.brand]["WIPEOUT_LOG_TABLE_PATH"]]
TableOf(f) == transcript_tables[BRAND_CONFIGS[f.brand]["TRANSCRIPTS_TABLE_PATH"]]

\* Session ids with a record in the wipeout log when the invocation's query
\* ran: invocations do not overlap, so all later records are its own.
LoggedBefore(f) == {LogOf(f)[k].session_id : k \in 1..(Len(LogOf(f)) - Len(f.inserted))}

\* No query, listing, deletion or audit write
NothingDone(f) == f.queried = 0 /\ f.listed = {} /\ f.deleted = {} /\ f.inserted = <<>>

\* Session ids with a flagged turn in the table's window
Flagged(f) ==
    {turn.session_id : turn \in {u \in TableOf(f) :
        /\ u.request_time >= now - WindowMinutes
        /\ u.session_id # None
        /\ u.agent_id # None
        /\ \E k \in DOMAIN u.customer_utterance : u.customer_utterance[k] = "[redacted]"}}

\* C1: for a brand with an audit table, a session id that had an audit record
\* when an invocation's query ran is not among the rows the query returned,
\* and the invocation neither scans, lists nor deletes it.
C1_ExcludedOnceLogged ==
    \A i \in Invocations :
        LET f == inv[i] IN
        (HasLogTable(f) /\ f.queried > 0) =>
            \A s \in LoggedBefore(f) :
                /\ \A row \in f.rows : row.session_id # s
                /\ f.pc \in {"list", "delete", "insert"} => f.row.session_id # s
                /\ \A k \in DOMAIN f.outcomes : f.outcomes[k].session_id # s
                /\ \A prefix \in f.listed : prefix[4] # s
                /\ \A d \in f.deleted : d[2][4] # s

\* An invocation has just run its query while a session with an audit record
\* still has a flagged turn in the window, and the query returned another row.
C1_Witness ==
    \E i \in Invocations :
        LET f == inv[i] IN
        /\ HasLogTable(f)
        /\ f.pc = "rows"
        /\ f.fetched = 0
        /\ f.rows # {}
        /\ LoggedBefore(f) \cap Flagged(f) # {}

\* The row whose handling has just ended, and the counters since it was fetched
RowEnded(f) == f.pc \in {"rows", "done"} /\ f.outcomes # <<>>
LastRow(f) == f.outcomes[Len(f.outcomes)]
Scanned(f) == f.scanned_session_count - f.row_start.scanned
Folders(f) == f.deleted_folder_count - f.row_start.folders
Files(f) == f.deleted_file_count - f.row_start.files
Errors(f) == f.error_count - f.row_start.errors
Records(f) == Len(f.inserted) - f.row_start.log_len

\* The listing returned N >= 1 objects and every one of them was deleted
AllDeleted(f) == RowEnded(f) /\ LastRow(f).n >= 1 /\ LastRow(f).removed = LastRow(f).n

\* The N listed objects are gone, the invocation has deleted no more objects
\* than it counts, and the counters have grown by one folder and N files
DeletedAndCounted(f) ==
    /\ \A k \in DOMAIN f.blobs_to_delete :
          /\ <<BRAND_CONFIGS[f.brand]["BUCKET_NAME"], f.blobs_to_delete[k]>> \in f.deleted
          /\ f.blobs_to_delete[k] \notin buckets[BRAND_CONFIGS[f.brand]["BUCKET_NAME"]]
    /\ Len(f.blobs_to_delete) = LastRow(f).n
    /\ Cardinality(f.deleted) = f.deleted_file_count
    /\ Folders(f) = 1
    /\ Files(f) = LastRow(f).n

\* The last record of the log is the row's: its session id, its request time
\* and a deletion time not after now, each as an ISO-8601 timestamp
RecordOfRow(f) ==
    LET record == LogOf(f)[Len(LogOf(f))] IN
    /\ Records(f) = 1
    /\ f.inserted[Len(f.inserted)] = record
    /\ record.session_id = f.row.session_id
    /\ record.request_timestamp =
          [date |-> f.row.request_time \div MinutesPerDay,
           hour |-> (f.row.request_time % MinutesPerDay) \div 60,
           minute |-> f.row.request_time % 60, offset |-> "+00:00"]
    /\ \E t \in f.row.request_time..now :
          record.deleted_timestamp =
              [date |-> t \div MinutesPerDay, hour |-> (t % MinutesPerDay) \div 60,
               minute |-> t % 60, offset |-> ""]

\* C2 as stated: when the listing returned N >= 1 objects and all N deletions
\* succeeded, exactly those N objects are deleted, the folder counter has grown
\* by 1 and the file counter by N, and with an audit table exactly one audit
\* record with the session id and the two timestamps has been appended.
C2_AsStated ==
    \A i \in Invocations :
        LET f == inv[i] IN
        AllDeleted(f) =>
            /\ DeletedAndCounted(f)
            /\ IF HasLogTable(f) THEN RecordOfRow(f) ELSE Records(f) = 0

\* C2 amended: as above, but the audit record is appended when the insert call
\* succeeds; when the insert raises or the table refuses the row, none is.
C2_DeletedCountedLogged ==
    \A i \in Invocations :
        LET f == inv[i] IN
        AllDeleted(f) =>
            /\ DeletedAndCounted(f)
            /\ IF HasLogTable(f) /\ LastRow(f).outcome = "logged"
               THEN RecordOfRow(f)
               ELSE Records(f) = 0
            /\ HasLogTable(f) => LastRow(f).outcome \in {"logged", "insert_raised", "insert_refused"}

\* A session with MaxFiles objects has been deleted and logged
C2_Witness ==
    \E i \in Invocations :
        LET f == inv[i] IN
        /\ AllDeleted(f)
        /\ LastRow(f).n = MaxFiles
        /\ HasLogTable(f)
        /\ LastRow(f).outcome = "logged"
        /\ f.deleted_folder_count = 1
        /\ f.deleted_file_count = MaxFiles

\* Rows whose listing, deletion or audit write raised, and their sessions
Raised(f) == {k \in DOMAIN f.outcomes :
                f.outcomes[k].outcome \in {"list_raised", "delete_raised", "delete_not_found",
                                           "insert_raised"}}
RaisedSessions(f) == {f.outcomes[k].session_id : k \in Raised(f)}

\* C3 as stated: a session whose processing raises stops no other session
\* (a row that raised is followed by the next row, the invocation ends with
\* the summary once every returned row has been handled), and in the summary
\* the error counter is the number of sessions whose processing raised.
C3_AsStated ==
    \A i \in Invocations :
        LET f == inv[i] IN
        /\ (RowEnded(f) /\ Len(f.outcomes) \in Raised(f) /\ f.rows # {} /\ f.pc = "done")
              => f.response.kind = "JobFailed"
        /\ (f.pc = "done" /\ f.response.kind = "Summary") =>
              /\ f.response.status = 200
              /\ f.rows = {}
              /\ Len(f.outcomes) = f.fetched
              /\ f.response.scanned = f.fetched
              /\ f.response.errors = Cardinality(RaisedSessions(f))

\* C4 as stated: an invocation that ends with the job failure has the status
\* 500, has deleted no object and has written no audit record.
C4_AsStated ==
    \A i \in Invocations :
        LET f == inv[i] IN
        (f.pc = "done" /\ f.response.kind = "JobFailed") =>
            /\ f.response.status = 500
            /\ f.deleted = {}
            /\ f.inserted = <<>>

\* C5 as stated: when every listed object of a row was deleted and the audit
\* write then failed, by raising or by the table refusing the row, the error
\* counter has grown by one, the folder and file counters keep the row's
\* contribution, and the loop goes on.
C5_AsStated ==
    \A i \in Invocations :
        LET f == inv[i] IN
        (AllDeleted(f) /\ LastRow(f).outcome \in {"insert_raised", "insert_refused"}) =>
            /\ Errors(f) = 1
            /\ Folders(f) = 1
            /\ Files(f) = LastRow(f).n
            /\ f.pc = "done" => (f.rows = {} \/ f.response.kind = "JobFailed")

\* C6: when the listing of a row's prefix returns no object, the row is
\* counted as scanned, the folder, file and error counters are as they were,
\* nothing is deleted and no audit record written, and the loop goes on.
C6_EmptyPrefixIsNoOp ==
    \A i \in Invocations :
        LET f == inv[i] IN
        (RowEnded(f) /\ LastRow(f).n = 0) =>
            /\ Scanned(f) = 1
            /\ Folders(f) = 0
            /\ Files(f) = 0
            /\ Errors(f) = 0
            /\ Records(f) = 0
            /\ Cardinality(f.deleted) = f.row_start.files
            /\ LastRow(f).removed = 0
            /\ f.pc = "done" => (f.rows = {} \/ f.response.kind = "JobFailed")

\* A row whose prefix holds no object has been handled after another row of
\* the same invocation had its objects deleted
C6_Witness ==
    \E i \in Invocations :
        LET f == inv[i] IN
        /\ RowEnded(f)
        /\ LastRow(f).n = 0
        /\ f.pc = "rows"
        /\ f.scanned_session_count = 2
        /\ f.deleted_folder_count = 1

\* C7: for a brand without a bucket name or without a path template, every
\* row fetched is counted as scanned, nothing is listed or deleted, no audit
\* record is written, and the folder, file and error counters stay 0.
C7_LogOnlyMode ==
    \A i \in Invocations :
        LET f == inv[i] IN
        (/\ Known(f)
         /\ \/ "BUCKET_NAME" \notin DOMAIN BRAND_CONFIGS[f.brand]
            \/ "GCS_PATH_TEMPLATE" \notin DOMAIN BRAND_CONFIGS[f.brand]) =>
            /\ f.scanned_session_count = f.fetched
            /\ f.pc # "idle" => f.pc \in {"query", "rows", "done"}
            /\ f.listed = {}
            /\ f.deleted = {}
            /\ f.inserted = <<>>
            /\ f.deleted_folder_count = 0
            /\ f.deleted_file_count = 0
            /\ f.error_count = 0
            /\ (f.pc = "done" /\ f.response.kind = "Summary") =>
                  /\ f.rows = {}
                  /\ f.response.scanned = f.fetched
                  /\ f.response.folders = 0
                  /\ f.response.files = 0
                  /\ f.response.errors = 0

\* A brand without a bucket name has finished a job that scanned two rows
C7_Witness ==
    \E i \in Invocations :
        LET f == inv[i] IN
        /\ Known(f)
        /\ "BUCKET_NAME" \notin DOMAIN BRAND_CONFIGS[f.brand]
        /\ f.pc = "done"
        /\ f.response.kind = "Summary"
        /\ f.response.scanned = 2

\* The request has no JSON body, or its body has no brand field
NoBrandField(f) == ~f.request.json \/ "brand" \notin DOMAIN f.request.body

ClientsThere == bq_client = "Client" /\ storage_client = "Client"

\* C8 as stated: every answered request without a JSON body or without the
\* brand field got a 400 response, and nothing was queried, listed, deleted
\* or logged.
C8_AsStated ==
    \A i \in Invocations :
        LET f == inv[i] IN
        (f.pc = "done" /\ NoBrandField(f)) =>
            /\ f.response.status = 400
            /\ NothingDone(f)

\* C8 amended: the same when both clients are initialised.  (When one is
\* not, the answer is the 500 of C10.)  No such request goes past the check.
C8_MissingBrandIs400 ==
    \A i \in Invocations :
        LET f == inv[i] IN
        /\ (f.pc = "done" /\ NoBrandField(f) /\ ClientsThere) =>
              /\ f.response.status = 400
              /\ f.response.kind = "BadRequest"
              /\ NothingDone(f)
        /\ (f.pc \notin {"idle", "done"}) => ~NoBrandField(f)

\* With the clients initialised, a request with a JSON body that is not empty
\* but has no brand field has been answered
C8_Witness ==
    \E i \in Invocations :
        LET f == inv[i] IN
        /\ ClientsThere
        /\ f.pc = "done"
        /\ f.request.json
        /\ DOMAIN f.request.body = {"other"}
        /\ f.response.status = 400

\* The selector of the request, lower-cased letter by letter
LowerCased(f) ==
    [k \in DOMAIN f.request.body["brand"] |->
        LET c == f.request.body["brand"][k] IN
        CASE c = "W" -> "w" [] c = "K" -> "k" [] c = "F" -> "f" [] c = "C" -> "c" [] OTHER -> c]

Rejected(f) == f.pc = "done" /\ f.response.status = 400

\* C9 as stated: every answered request whose lower-cased selector is not a
\* key of the registry got a 400 response that lists the known brands, and
\* nothing was queried, listed, deleted or logged; a selector whose
\* lower-cased form is a key is not rejected.
C9_AsStated ==
    \A i \in Invocations :
        LET f == inv[i] IN
        (f.pc = "done" /\ ~NoBrandField(f)) =>
            IF LowerCased(f) \notin DOMAIN BRAND_CONFIGS
            THEN /\ f.response.status = 400
                 /\ f.response.kind = "InvalidBrand"
                 /\ f.response.available = DOMAIN BRAND_CONFIGS
                 /\ NothingDone(f)
            ELSE ~Rejected(f)

\* C9 amended: the same when both clients are initialised.  (When one is
\* not, the answer is the 500 of C10.)
C9_UnknownBrandIs400 ==
    \A i \in Invocations :
        LET f == inv[i] IN
        /\ (f.pc = "done" /\ ~NoBrandField(f) /\ ClientsThere) =>
              IF LowerCased(f) \notin DOMAIN BRAND_CONFIGS
              THEN /\ f.response.status = 400
                   /\ f.response.kind = "InvalidBrand"
                   /\ f.response.available = DOMAIN BRAND_CONFIGS
                   /\ NothingDone(f)
              ELSE ~Rejected(f)
        /\ (f.pc \notin {"idle", "done"}) =>
              /\ LowerCased(f) \in DOMAIN BRAND_CONFIGS
              /\ f.brand = LowerCased(f)

\* With the clients initialised, an unknown selector has been rejected
C9_Witness ==
    \E i \in Invocations :
        LET f == inv[i] IN
        /\ ClientsThere
        /\ f.pc = "done"
        /\ ~NoBrandField(f)
        /\ f.request.body["brand"] # <<>>
        /\ LowerCased(f) \notin DOMAIN BRAND_CONFIGS
        /\ f.response.kind = "InvalidBrand"

\* C10: when the query-engine handle or the object-store handle is absent,
\* every request is answered with the 500 of the configuration error and
\* nothing is queried, listed, deleted or logged.
C10_NoClientsIs500 ==
    \A i \in Invocations :
        LET f == inv[i] IN
        (bq_client = "None" \/ storage_client = "None") =>
            /\ f.pc \in {"idle", "done"}
            /\ NothingDone(f)
            /\ f.pc = "done" =>
                  /\ f.response.status = 500
                  /\ f.response.kind = "ClientsNotInitialized"
            /\ buckets[MCDONALDS_CONFIG.BUCKET_NAME] = InitialObjects
            /\ \A p \in LogTablePaths : log_tables[p] = <<>>

\* Without clients, a request for a configured brand has been answered
C10_Witness ==
    \E i \in Invocations :
        LET f == inv[i] IN
        /\ bq_client = "None"
        /\ f.pc = "done"
        /\ ~NoBrandField(f)
        /\ f.request.body["brand"] = mcdonalds
        /\ f.response.status = 500

\* The template of the brand with the agent id, the day of the request time
\* and the session id put in place of the three placeholders
Rendered(agent_id, request_time, session_id) ==
    <<"mcdonalds-ttm", agent_id, ToString(request_time \div MinutesPerDay), session_id>>

FlaggedTurns(f) ==
    {u \in TableOf(f) :
        /\ u.session_id # None
        /\ u.agent_id # None
        /\ \E k \in DOMAIN u.customer_utterance : u.customer_utterance[k] = "[redacted]"}

\* C11: the prefix that is listed and deleted for a row is the brand's
\* template with the row's agent id, the YYYY-MM-DD day of its request time
\* and its session id substituted; every prefix listed and every object
\* deleted is under such a rendering of a flagged turn.
C11_PrefixIsRenderedTemplate ==
    \A i \in Invocations :
        LET f == inv[i] IN
        /\ f.pc \in {"list", "delete", "insert"} =>
              f.gcs_folder_prefix = Rendered(f.row.agent_id, f.row.request_time, f.row.session_id)
        /\ \A prefix \in f.listed :
              \E u \in FlaggedTurns(f) : prefix = Rendered(u.agent_id, u.request_time, u.session_id)
        /\ \A d \in f.deleted :
              \E u \in FlaggedTurns(f) :
                  SubSeq(d[2], 1, 4) = Rendered(u.agent_id, u.request_time, u.session_id)

\* A row is about to be listed under the prefix already listed for another
\* row of the invocation: same agent, day and session, another request time
C11_Witness ==
    \E i \in Invocations :
        LET f == inv[i] IN
        /\ f.pc = "list"
        /\ f.gcs_folder_prefix \in f.listed
        /\ f.row.request_time % MinutesPerDay # 0
        /\ f.row.request_time \div MinutesPerDay = Today + 1

\* The objects listed for the rows whose objects were all deleted
RECURSIVE FilesOfDeletedFolders(_, _)
FilesOfDeletedFolders(outcomes, k) ==
    IF k = 0 THEN 0
    ELSE FilesOfDeletedFolders(outcomes, k - 1)
         + (IF outcomes[k].n >= 1 /\ outcomes[k].removed = outcomes[k].n THEN outcomes[k].n ELSE 0)

\* C12 as stated: a row whose deletion raised after some of its objects were
\* deleted adds nothing to the folder counter nor to the file counter, and
\* the file count of the summary is the number of objects of the rows whose
\* objects were all deleted.
C12_AsStated ==
    \A i \in Invocations :
        LET f == inv[i] IN
        /\ (RowEnded(f) /\ LastRow(f).n >= 1 /\ LastRow(f).removed < LastRow(f).n) =>
              /\ Folders(f) = 0
              /\ Files(f) = 0
        /\ (f.pc = "done" /\ f.response.kind = "Summary") =>
              f.response.files = FilesOfDeletedFolders(f.outcomes, Len(f.outcomes))

\* C13 as stated: the rows an invocation iterates hold at most one row per
\* session id, and no session is scanned twice by an invocation.
C13_AsStated ==
    \A i \in Invocations :
        LET f == inv[i] IN
        /\ \A r1 \in f.rows, r2 \in f.rows : r1.session_id = r2.session_id => r1 = r2
        /\ \A k1 \in DOMAIN f.outcomes, k2 \in DOMAIN f.outcomes :
              f.outcomes[k1].session_id = f.outcomes[k2].session_id => k1 = k2

\* The rows that ended with the record written
LoggedRows(f) == {k \in DOMAIN f.outcomes : f.outcomes[k].outcome = "logged"}
\* The rows for which the insert call was made
InsertCalls(f) == {k \in DOMAIN f.outcomes :
                     f.outcomes[k].outcome \in {"logged", "insert_raised", "insert_refused"}}

\* C14: the insert call is made only for a brand with an audit table and only
\* when the row's listing returned at least one object and every listed
\* object has been deleted; every audit record an invocation has written is
\* for such a row, one record per row.
C14_AuditOnlyAfterDeletion ==
    \A i \in Invocations :
        LET f == inv[i] IN
        /\ f.pc = "insert" =>
              /\ Known(f)
              /\ "WIPEOUT_LOG_TABLE_PATH" \in DOMAIN BRAND_CONFIGS[f.brand]
              /\ "BUCKET_NAME" \in DOMAIN BRAND_CONFIGS[f.brand]
              /\ "GCS_PATH_TEMPLATE" \in DOMAIN BRAND_CONFIGS[f.brand]
              /\ Len(f.blobs_to_delete) >= 1
              /\ f.next_blob = Len(f.blobs_to_delete) + 1
              /\ Files(f) = Len(f.blobs_to_delete)
              /\ \A k \in DOMAIN f.blobs_to_delete :
                    /\ <<BRAND_CONFIGS[f.brand]["BUCKET_NAME"], f.blobs_to_delete[k]>> \in f.deleted
                    /\ f.blobs_to_delete[k] \notin buckets[BRAND_CONFIGS[f.brand]["BUCKET_NAME"]]
        /\ \A k \in InsertCalls(f) :
              /\ HasLogTable(f)
              /\ f.outcomes[k].n >= 1
              /\ f.outcomes[k].removed = f.outcomes[k].n
        /\ Len(f.inserted) = Cardinality(LoggedRows(f))
        /\ \A k \in DOMAIN f.inserted :
              \E j \in LoggedRows(f) : f.outcomes[j].session_id = f.inserted[k].session_id
        /\ f.inserted # <<>> => HasLogTable(f)

\* An invocation has written a record after a row with an empty listing, a
\* row whose listing raised and a row whose deletion raised wrote none
C14_Witness ==
    \E i \in Invocations :
        LET f == inv[i] IN
        /\ Len(f.inserted) = 1
        /\ Len(f.outcomes) = 2
        /\ f.outcomes[1].outcome \in {"empty", "list_raised", "delete_raised"}
        /\ f.outcomes[2].outcome = "logged"

\* C15 as stated: the wipeout log holds at most one record per session id.
C15_AsStated ==
    \A p \in LogTablePaths :
        \A k1 \in DOMAIN log_tables[p], k2 \in DOMAIN log_tables[p] :
            log_tables[p][k1].session_id = log_tables[p][k2].session_id => k1 = k2

\* Rows that ended at an object another invocation had already removed
MetAbsentObject(f) == {k \in DOMAIN f.outcomes : f.outcomes[k].outcome = "delete_not_found"}

\* The two invocations are the only ones that have deleted anything, both
\* have returned their summary, and no listing, deletion or insert failed
\* for a reason of its own
AllReturnedCleanly ==
    /\ \A key \in InitialObjects \ buckets[MCDONALDS_CONFIG.BUCKET_NAME] :
          \E i \in Invocations : <<MCDONALDS_CONFIG.BUCKET_NAME, key>> \in inv[i].deleted
    /\ \A i \in Invocations :
          /\ inv[i].pc = "done"
          /\ inv[i].response.kind = "Summary"
          /\ \A k \in DOMAIN inv[i].outcomes :
                inv[i].outcomes[k].outcome \notin {"list_raised", "delete_raised", "insert_raised"}

\* C16 as stated: when invocations overlap, no row ends, counted as an error,
\* at an object that another invocation has removed, and once all have
\* returned nothing is left under the prefixes they listed.
C16_AsStated ==
    /\ \A i \in Invocations :
          /\ MetAbsentObject(inv[i]) = {}
          /\ inv[i].error_count = Cardinality(Raised(inv[i]) \ MetAbsentObject(inv[i]))
    /\ AllReturnedCleanly =>
          \A i \in Invocations : \A prefix \in inv[i].listed :
              \A key \in buckets[MCDONALDS_CONFIG.BUCKET_NAME] :
                  SubSeq(key, 1, Len(prefix)) # prefix

\* C17: an object that is gone from the brand's bucket was under the
\* rendered prefix of a flagged turn of the transcript table; what an
\* invocation has deleted is in the configured bucket and under a prefix it
\* listed; the other bucket and the objects of a session without a flagged
\* turn are as they were.
C17_DeletionFrame ==
    /\ \A key \in InitialObjects \ buckets[MCDONALDS_CONFIG.BUCKET_NAME] :
          \E p \in TranscriptTablePaths : \E u \in transcript_tables[p] :
              /\ u.session_id # None
              /\ u.agent_id # None
              /\ \E k \in DOMAIN u.customer_utterance : u.customer_utterance[k] = "[redacted]"
              /\ SubSeq(key, 1, 4) = Rendered(u.agent_id, u.request_time, u.session_id)
    /\ buckets[MCDONALDS_CONFIG.BUCKET_NAME] \subseteq InitialObjects
    /\ buckets[OtherBucket] = {<<"mcdonalds-ttm", AgentId, ToString(Today), "S1", 1>>}
    /\ <<"mcdonalds-ttm", AgentId, ToString(Today), "S3", 1>> \in buckets[MCDONALDS_CONFIG.BUCKET_NAME]
    /\ \A i \in Invocations :
          LET f == inv[i] IN
          \A d \in f.deleted :
              /\ Known(f)
              /\ "BUCKET_NAME" \in DOMAIN BRAND_CONFIGS[f.brand]
              /\ d[1] = BRAND_CONFIGS[f.brand]["BUCKET_NAME"]
              /\ d[2] \notin buckets[d[1]]
              /\ \E prefix \in f.listed :
                    /\ Len(prefix) = 4
                    /\ SubSeq(d[2], 1, 4) = prefix
                    /\ \/ \E k \in DOMAIN f.outcomes : f.outcomes[k].session_id = prefix[4]
                       \/ f.pc \in {"delete", "insert"} /\ f.row.session_id = prefix[4]

\* An invocation that failed on its way has deleted the objects of S1 of
\* today, while those of S2 and of S1 of tomorrow are still there
C17_Witness ==
    \E i \in Invocations :
        LET f == inv[i] IN
        /\ f.pc = "done"
        /\ f.response.kind = "JobFailed"
        /\ Cardinality(f.deleted) = MaxFiles
        /\ buckets[MCDONALDS_CONFIG.BUCKET_NAME] =
              {<<"mcdonalds-ttm", AgentId, ToString(Today), "S2", 1>>,
               <<"mcdonalds-ttm", AgentId, ToString(Today + 1), "S1", 1>>,
               <<"mcdonalds-ttm", AgentId, ToString(Today), "S3", 1>>}

\* C18: at every point of an invocation and in its summary, the folder
\* counter and the error counter are at most the scanned counter, and the
\* file counter is at least the folder counter.
C18_CounterOrder ==
    \A i \in Invocations :
        LET f == inv[i] IN
        /\ f.deleted_folder_count <= f.scanned_session_count
        /\ f.error_count <= f.scanned_session_count
        /\ f.deleted_file_count >= f.deleted_folder_count
        /\ (f.pc = "done" /\ f.response.kind = "Summary") =>
              /\ f.response.folders <= f.response.scanned
              /\ f.response.errors <= f.response.scanned
              /\ f.response.files >= f.response.folders

\* A summary with two rows scanned, one a deleted folder of MaxFiles files,
\* the other an error
C18_Witness ==
    \E i \in Invocations :
        LET f == inv[i] IN
        /\ f.pc = "done"
        /\ f.response.kind = "Summary"
        /\ f.response.scanned = 2
        /\ f.response.folders = 1
        /\ f.response.files = MaxFiles
        /\ f.response.errors = 1

====
